---- MODULE Spec2Model ----
(***************************************************************************)
(* Course recommendation service (backend/app/services/recommendation.py). *)
(*                                                                         *)
(*   get_additional_keywords    KeywordEnricher: one HTTP call per course   *)
(*   create_course_graph        PrerequisiteGraph builder                   *)
(*   get_course_recommendations ScoreCombiner                               *)
(*   recommend_driver           RecommendationPipeline                      *)
(*                                                                         *)
(* Scores are Python floats in the source.  The model keeps them as exact  *)
(* fractions [num, den] with den > 0 and compares by cross multiplication. *)
(* A similarity score is SimNum / SimDen.                                  *)
(***************************************************************************)
EXTENDS Integers, Sequences, FiniteSets, TLC

VARIABLES
    pc,                  \* position of the running call
    exc,                 \* exception that ended the call, "none" while there is none
    courses_df,          \* the catalog rows, in iterrows() order
    row,                 \* index of the next row create_course_graph visits
    responses,           \* outcome of requests.post for each visited row
    additional_keywords, \* what get_additional_keywords returned for each visited row
    G,                   \* the nx.DiGraph: [node: id -> attribute dict, edge: set of <<u, v>>]
    user_courses,        \* completed course ids
    user_skills,         \* the user's skill strings
    similarity_scores,   \* the mapping, as the sequence of its items() pairs
    n,                   \* the limit
    item,                \* index of the next items() pair the scoring loop visits
    recommendations,     \* the list the scoring loop appends to
    result,              \* what get_course_recommendations returned
    output               \* the records recommend_driver serialises

vars == <<pc, exc, courses_df, row, responses, additional_keywords, G, user_courses,
          user_skills, similarity_scores, n, item, recommendations, result, output>>

buildVars == <<courses_df, row, responses, additional_keywords>>
scoreVars == <<user_courses, user_skills, similarity_scores, n, item, recommendations, result>>

----------------------------------------------------------------------------
(* Bounds of the model *)

\* most comma separated pieces in one enricher answer
MaxKeywords == 1
\* similarity scores are 0/SimDen .. MaxSim/SimDen
SimDen == 1
MaxSim == 2
\* explicit limits are -1 .. MaxLimit
MaxLimit == 2

\* course identifiers
IDs == {"c1", "c2"}
\* the one display name given to the course with identifier id
NameOf(id) == IF id = "c1" THEN "Databases" ELSE "Machine Learning"

\* skills_associated lists of the catalog
BaseSkillLists == {<< >>, <<"SQL", "ml">>}
\* pieces the enricher's answer splits into at its commas
RawKeywords == {" SQL", "ml"}
\* skill strings of graphs and users
Skills == {"sql", "ml"}

----------------------------------------------------------------------------
(* Program constants *)

\* 0.7 and 0.3, in tenths
SimilarityWeight == 7
SkillWeight == 3
WeightDen == 10
\* the driver keeps combined_score > 0.3
ThresholdNum == 3
\* n=10
DefaultLimit == 10
\* HTTP 200
StatusOK == 200

\* the column names of the three prerequisite slots, in the order the loop visits them
PrereqColumns == <<"prerequisite_1", "prerequisite_2", "prerequisite_3">>
\* a slot that is None or "" is falsy
Absent == ""
NoneSentinel == "None"

----------------------------------------------------------------------------
(* Helpers *)

Range(s) == {s[i] : i \in 1..Len(s)}
Min(a, b) == IF a <= b THEN a ELSE b
Max(a, b) == IF a >= b THEN a ELSE b
SeqsUpTo(S, k) == UNION {[1..m -> S] : m \in 0..k}
Distinct(s) == \A i, j \in 1..Len(s) : i # j => s[i] # s[j]

----------------------------------------------------------------------------
(* networkx DiGraph *)

\* a node's attribute dict with no keys
EmptyAttrs == [a \in {} |-> {}]
DiGraph == [node |-> [v \in {} |-> EmptyAttrs], edge |-> {}]

Nodes(g) == DOMAIN g.node

\* variant: a node that an edge already created keeps its empty dict
add_node_keep(g, v, attrs) ==
    IF v \in DOMAIN g.node THEN g ELSE [g EXCEPT !.node = (v :> attrs) @@ g.node]

\* G.add_node(v, **attrs): a new node gets attrs, a known node has its dict updated
add_node(g, v, attrs) ==
    [g EXCEPT !.node = IF v \in DOMAIN g.node
                       THEN [g.node EXCEPT ![v] = attrs @@ g.node[v]]
                       ELSE (v :> attrs) @@ g.node]

\* G.add_edge(u, v): u and v become nodes (with empty dicts) when they are not yet
add_edge(g, u, v) ==
    LET withU == IF u \in DOMAIN g.node THEN g.node ELSE (u :> EmptyAttrs) @@ g.node
        withV == IF v \in DOMAIN withU THEN withU ELSE (v :> EmptyAttrs) @@ withU
    IN  [node |-> withV, edge |-> g.edge \cup {<<u, v>>}]

predecessors(g, v) == {u \in Nodes(g) : <<u, v>> \in g.edge}

----------------------------------------------------------------------------
(* get_additional_keywords *)

\* keyword.strip().lower()
StripLower(k) ==
    CASE k = " SQL" -> "sql"
      [] k = "SQL" -> "sql"
      [] k = "ML " -> "ml"
      [] OTHER -> k

\* what requests.post can do: raise, or hand back a status with the answer's pieces
Responses ==
    {[kind |-> "raise", status |-> 0, pieces |-> << >>]}
    \cup {[kind |-> "response", status |-> 500, pieces |-> << >>]}
    \cup {[kind |-> "response", status |-> StatusOK, pieces |-> p] :
            p \in SeqsUpTo(RawKeywords, MaxKeywords) \ {<< >>}}

\* the value returned when the call does not raise
get_additional_keywords(response) ==
    IF response.status = StatusOK
    THEN [i \in 1..Len(response.pieces) |-> StripLower(response.pieces[i])]
    ELSE << >>

----------------------------------------------------------------------------
(* create_course_graph *)

\* variant: truthiness only, the sentinel comparison left out
SlotSet_truthy(value) == value # Absent

\* `if course[prereq] and course[prereq] != 'None'`
SlotSet(value) == value # Absent /\ value # NoneSentinel

\* set(course['skills_associated'] + additional_keywords)
all_skills(course, keywords) == Range(course.skills_associated \o keywords)

\* the inner loop over the three prerequisite columns, from column k on
RECURSIVE AddPrereqEdges(_, _, _)
AddPrereqEdges(g, course, k) ==
    IF k > Len(PrereqColumns) THEN g
    ELSE LET value == course[PrereqColumns[k]]
             g1 == IF SlotSet(value) THEN add_edge(g, value, course.course_id) ELSE g
         IN  AddPrereqEdges(g1, course, k + 1)

\* one pass of the outer loop
VisitCourse(g, course, keywords) ==
    LET g1 == add_node(g, course.course_id,
                       [name |-> course.course_name, skills |-> all_skills(course, keywords)])
    IN  AddPrereqEdges(g1, course, 1)

Rows ==
    [course_id : IDs, course_name : {"Databases", "Machine Learning"},
     skills_associated : BaseSkillLists,
     prerequisite_1 : IDs \cup {Absent, NoneSentinel},
     prerequisite_2 : IDs \cup {Absent, NoneSentinel},
     prerequisite_3 : IDs \cup {Absent, NoneSentinel}]

WellNamed(r) == r.course_name = NameOf(r.course_id)

\* catalogs: rows with unique identifiers
Catalogs == {df \in SeqsUpTo({r \in Rows : WellNamed(r)}, Cardinality(IDs)) : Distinct([i \in 1..Len(df) |-> df[i].course_id])}

\* the keyword call of the next row raises: nothing catches it
CourseIterationRaises ==
    /\ pc = "create_course_graph"
    /\ row <= Len(courses_df)
    /\ \E response \in Responses :
        /\ response.kind = "raise"
        /\ responses' = Append(responses, "raise")
    /\ pc' = "raised"
    /\ exc' = "ConnectionError"
    /\ UNCHANGED <<courses_df, row, additional_keywords, G, scoreVars, output>>

\* the next row: keywords, node, edges
CourseIteration ==
    /\ pc = "create_course_graph"
    /\ row <= Len(courses_df)
    /\ \E response \in Responses :
        /\ response.kind = "response"
        /\ LET keywords == get_additional_keywords(response)
           IN  /\ responses' = Append(responses, IF response.status = StatusOK THEN "ok" ELSE "error")
               /\ additional_keywords' = Append(additional_keywords, keywords)
               /\ G' = VisitCourse(G, courses_df[row], keywords)
    /\ row' = row + 1
    /\ UNCHANGED <<pc, exc, courses_df, scoreVars, output>>

\* `return G`
CreateCourseGraphReturn ==
    /\ pc = "create_course_graph"
    /\ row > Len(courses_df)
    /\ pc' = "graph_built"
    /\ UNCHANGED <<exc, buildVars, G, scoreVars, output>>

InitBuild ==
    /\ pc = "create_course_graph"
    /\ exc = "none"
    /\ courses_df \in Catalogs
    /\ row = 1
    /\ responses = << >>
    /\ additional_keywords = << >>
    /\ G = DiGraph
    /\ user_courses = {}
    /\ user_skills = {}
    /\ similarity_scores = << >>
    /\ n = DefaultLimit
    /\ item = 1
    /\ recommendations = << >>
    /\ result = << >>
    /\ output = << >>

NextBuild == CourseIterationRaises \/ CourseIteration \/ CreateCourseGraphReturn

SpecBuild == InitBuild /\ [][NextBuild]_vars

----------------------------------------------------------------------------
(* get_course_recommendations *)

\* a fraction, and the order of fractions with positive denominators
Frac(a, b) == [num |-> a, den |-> b]
Less(x, y) == x.num * y.den < y.num * x.den
Leq(x, y) == x.num * y.den <= y.num * x.den

\* variant: the two weights exchanged
combined_score_swapped(score, course_skills, uskills) ==
    LET total == Cardinality(course_skills)
        common == Cardinality(course_skills \cap uskills)
    IN  Frac(SkillWeight * score * total + SimilarityWeight * common * SimDen,
             WeightDen * SimDen * total)

\* len(course_skills.intersection(user_skills)) / len(course_skills), then
\* 0.7 * score + 0.3 * skill_overlap, for a score of score/SimDen
combined_score(score, course_skills, uskills) ==
    LET total == Cardinality(course_skills)
        common == Cardinality(course_skills \cap uskills)
    IN  Frac(SimilarityWeight * score * total + SkillWeight * common * SimDen,
             WeightDen * SimDen * total)

\* variant: any() in place of all()
prereqs_met_any(g, course_id, completed) ==
    \/ predecessors(g, course_id) = {}
    \/ \E prereq \in predecessors(g, course_id) : prereq \in completed

\* every node with a path to v
RECURSIVE Ancestors(_, _, _)
Ancestors(g, frontier, seen) ==
    LET more == UNION {predecessors(g, v) : v \in frontier} \ seen
    IN  IF more = {} THEN seen ELSE Ancestors(g, more, seen \cup more)

\* variant: the whole prerequisite chain has to be completed
prereqs_met_transitive(g, course_id, completed) ==
    \A prereq \in Ancestors(g, {course_id}, {}) : prereq \in completed

\* all(prereq in user_courses for prereq in G.predecessors(course_id))
prereqs_met(g, course_id, completed) == \A prereq \in predecessors(g, course_id) : prereq \in completed

\* sorted(..., key=lambda x: x[1], reverse=True): stable, equal scores keep their order
RECURSIVE InsertDescending(_, _)
InsertDescending(s, e) ==
    IF s = << >> THEN <<e>>
    ELSE IF Less(Head(s).combined_score, e.combined_score) THEN <<e>> \o s
    ELSE <<Head(s)>> \o InsertDescending(Tail(s), e)

RECURSIVE SortedDescending(_)
SortedDescending(s) ==
    IF s = << >> THEN << >>
    ELSE InsertDescending(SortedDescending(SubSeq(s, 1, Len(s) - 1)), s[Len(s)])

\* variant: one entry too many
SliceTo_one_more(s, k) == SubSeq(s, 1, IF k >= 0 THEN Min(k + 1, Len(s)) ELSE Max(Len(s) + k, 0))

\* s[:k], also for a negative k
SliceTo(s, k) == SubSeq(s, 1, IF k >= 0 THEN Min(k, Len(s)) ELSE Max(Len(s) + k, 0))

\* variant: the completed-course test left out
already_completed_never(course_id, completed) == FALSE

\* `course_id not in user_courses`, negated
already_completed(course_id, completed) == course_id \in completed

\* does the entry's skill lookup or division raise
ScoringRaises(g, course_id) ==
    IF "skills" \notin DOMAIN g.node[course_id] THEN TRUE ELSE g.node[course_id].skills = {}

\* the next items() pair raises: no 'skills' key, or an empty skill list
ScoreItemRaises ==
    /\ pc = "get_course_recommendations"
    /\ item <= Len(similarity_scores)
    /\ LET course_id == similarity_scores[item][1]
       IN  /\ ~already_completed(course_id, user_courses)
           /\ ScoringRaises(G, course_id)
           /\ exc' = IF "skills" \notin DOMAIN G.node[course_id]
                     THEN "KeyError" ELSE "ZeroDivisionError"
    /\ pc' = "raised"
    /\ UNCHANGED <<buildVars, G, scoreVars, output>>

\* the next items() pair: skipped when completed, scored, appended when eligible
ScoreItem ==
    /\ pc = "get_course_recommendations"
    /\ item <= Len(similarity_scores)
    /\ LET course_id == similarity_scores[item][1]
           score == similarity_scores[item][2]
       IN  IF already_completed(course_id, user_courses)
           THEN UNCHANGED recommendations
           ELSE /\ ~ScoringRaises(G, course_id)
                /\ LET combined == combined_score(score, G.node[course_id].skills, user_skills)
                   IN  recommendations' =
                         IF prereqs_met(G, course_id, user_courses)
                         THEN Append(recommendations,
                                     [course_id |-> course_id, combined_score |-> combined])
                         ELSE recommendations
    /\ item' = item + 1
    /\ UNCHANGED <<pc, exc, buildVars, G, user_courses, user_skills, similarity_scores, n,
                   result, output>>

\* `return sorted(...)[:n]`
RecommendationsReturn ==
    /\ pc = "get_course_recommendations"
    /\ item > Len(similarity_scores)
    /\ result' = SliceTo(SortedDescending(recommendations), n)
    /\ pc' = "recommended"
    /\ UNCHANGED <<exc, buildVars, G, user_courses, user_skills, similarity_scores, n, item,
                   recommendations, output>>

\* similarity scores, as numerators over SimDen
Sims == 0..MaxSim

\* graphs over IDs, every identifier a node; a node carries no attributes or a
\* skill list, and any pair of nodes (a node with itself too) may be an edge
NodeAttrs == {EmptyAttrs} \cup {[name |-> "Databases", skills |-> s] : s \in SUBSET Skills}
Graphs == [node : [IDs -> NodeAttrs], edge : SUBSET (IDs \X IDs)]

\* mappings: each key once, in any insertion order
Mappings == {m \in SeqsUpTo(IDs \X Sims, Cardinality(IDs)) : Distinct([i \in 1..Len(m) |-> m[i][1]])}

InitRec ==
    /\ pc = "get_course_recommendations"
    /\ exc = "none"
    /\ courses_df = << >>
    /\ row = 1
    /\ responses = << >>
    /\ additional_keywords = << >>
    /\ G \in Graphs
    /\ user_courses \in SUBSET IDs
    /\ user_skills \in SUBSET Skills
    /\ similarity_scores \in Mappings
    /\ n \in (-1)..MaxLimit
    /\ item = 1
    /\ recommendations = << >>
    /\ result = << >>
    /\ output = << >>

NextRec == ScoreItemRaises \/ ScoreItem \/ RecommendationsReturn

SpecRec == InitRec /\ [][NextRec]_vars

----------------------------------------------------------------------------
(* recommend_driver *)

\* catalogs of the pipeline runs: the second and third prerequisite columns are empty
DriverCatalogs ==
    {df \in Catalogs : \A i \in 1..Len(df) :
        df[i].prerequisite_2 = NoneSentinel /\ df[i].prerequisite_3 = Absent}

\* variant: >= 0.3
AboveThreshold_inclusive(score) == Leq(Frac(ThresholdNum, WeightDen), score)

\* recommendation_df['combined_score'] > 0.3
AboveThreshold(score) == Less(Frac(ThresholdNum, WeightDen), score)

\* DataFrame(recommendations).merge(courses_df[[...]], on='course_id'): inner join,
\* in the order of the recommendations; identifiers are unique in the catalog
Merge(recs, df, g) ==
    LET known == SelectSeq(recs, LAMBDA r : \E i \in 1..Len(df) : df[i].course_id = r.course_id)
        RowOf(id) == df[CHOOSE i \in 1..Len(df) : df[i].course_id = id]
    IN  [j \in 1..Len(known) |->
            [course_id |-> known[j].course_id,
             combined_score |-> known[j].combined_score,
             course_name |-> RowOf(known[j].course_id).course_name,
             enhanced_skills |-> g.node[known[j].course_id].skills]]

IsDescending(s) == \A i \in 1..(Len(s) - 1) : Leq(s[i + 1].combined_score, s[i].combined_score)

\* sort_values('combined_score', ascending=False): the default sort is not stable, so
\* records of equal score come out in any order
SortValuesDescending(s) ==
    {t \in {[i \in 1..Len(s) |-> s[p[i]]] : p \in Permutations(1..Len(s))} : IsDescending(t)}

\* lines 103-120: user profile, similarity of every catalog row, the call with n=10
DriverCallRecommendations ==
    /\ pc = "graph_built"
    /\ \E skills \in SUBSET Skills, completed \in SUBSET IDs,
          scores \in [1..Len(courses_df) -> Sims] :
        /\ user_skills' = skills
        /\ user_courses' = completed
        /\ similarity_scores' =
             [i \in 1..Len(courses_df) |-> <<courses_df[i].course_id, scores[i]>>]
    /\ n' = DefaultLimit
    /\ item' = 1
    /\ recommendations' = << >>
    /\ pc' = "get_course_recommendations"
    /\ UNCHANGED <<exc, buildVars, G, result, output>>

\* lines 123-131: join, threshold, final order
DriverFilter ==
    /\ pc = "recommended"
    /\ LET recommendation_df == Merge(result, courses_df, G)
           filtered_recommendations ==
               SelectSeq(recommendation_df, LAMBDA r : AboveThreshold(r.combined_score))
       IN  output' \in SortValuesDescending(filtered_recommendations)
    /\ pc' = "done"
    /\ UNCHANGED <<exc, buildVars, G, scoreVars>>

Init ==
    /\ pc = "create_course_graph"
    /\ exc = "none"
    /\ courses_df \in DriverCatalogs
    /\ row = 1
    /\ responses = << >>
    /\ additional_keywords = << >>
    /\ G = DiGraph
    /\ user_courses = {}
    /\ user_skills = {}
    /\ similarity_scores = << >>
    /\ n = DefaultLimit
    /\ item = 1
    /\ recommendations = << >>
    /\ result = << >>
    /\ output = << >>

Next ==
    \/ CourseIterationRaises
    \/ CourseIteration
    \/ CreateCourseGraphReturn
    \/ DriverCallRecommendations
    \/ ScoreItemRaises
    \/ ScoreItem
    \/ RecommendationsReturn
    \/ DriverFilter

Spec == Init /\ [][Next]_vars

----------------------------------------------------------------------------
(* Vocabulary of the properties *)

\* the direct predecessors of a node, read off the edge set
DirectPrereqs(id) == {u \in IDs \cup {NoneSentinel, Absent} : <<u, id>> \in G.edge}

\* positions of the mapping whose item is not completed and has every direct
\* predecessor completed
EligibleItems ==
    {i \in 1..Len(similarity_scores) :
        /\ similarity_scores[i][1] \notin user_courses
        /\ DirectPrereqs(similarity_scores[i][1]) \subseteq user_courses}

\* is x = 0.7 * sim + 0.3 * common / total, for the item at position i
IsCombinedScoreOf(x, i) ==
    LET id == similarity_scores[i][1]
        total == Cardinality(G.node[id].skills)
        common == Cardinality(G.node[id].skills \cap user_skills)
    IN  x.num * (WeightDen * SimDen * total)
          = (SimilarityWeight * similarity_scores[i][2] * total + SkillWeight * common * SimDen) * x.den

\* positions of the mapping that the returned sequence holds
ReturnedItems ==
    {i \in 1..Len(similarity_scores) :
        \E j \in 1..Len(result) : result[j].course_id = similarity_scores[i][1]}

\* the node of the item at position i has no skills key or an empty skill list
ZeroSkillItem(i) ==
    LET attrs == G.node[similarity_scores[i][1]]
    IN  IF "skills" \in DOMAIN attrs THEN attrs.skills = {} ELSE TRUE

\* the pairs the prerequisite slots of the catalog name
SlotPairs ==
    {<<courses_df[i][PrereqColumns[k]], courses_df[i].course_id>> :
        i \in 1..Len(courses_df), k \in 1..Len(PrereqColumns)}

----------------------------------------------------------------------------
(* Properties of get_course_recommendations, under SpecRec *)

\* C1: every returned entry has all direct predecessors of its node in the
\* completed set; an item with an unmet direct predecessor is never returned.
C1_PrerequisitesMet ==
    pc = "recommended" =>
        \A j \in 1..Len(result) : \A u \in IDs :
            <<u, result[j].course_id>> \in G.edge => u \in user_courses

\* C1 witness: an item is returned while an item with top similarity, full
\* skill overlap and an unmet prerequisite is left out.
C1_Witness ==
    /\ pc = "recommended"
    /\ result # << >>
    /\ n > Len(result)
    /\ \E i \in 1..Len(similarity_scores) :
        /\ similarity_scores[i][1] \notin user_courses
        /\ similarity_scores[i][2] = MaxSim
        /\ G.node[similarity_scores[i][1]].skills = user_skills
        /\ ~(DirectPrereqs(similarity_scores[i][1]) \subseteq user_courses)
        /\ i \notin ReturnedItems

\* C2: no returned entry is a completed item.
C2_NoCompletedItem ==
    pc = "recommended" => \A j \in 1..Len(result) : result[j].course_id \notin user_courses

\* C2 witness: a completed item with top similarity and full skill overlap is in
\* the mapping, and another item is returned.
C2_Witness ==
    /\ pc = "recommended"
    /\ result # << >>
    /\ \E i \in 1..Len(similarity_scores) :
        LET id == similarity_scores[i][1]
        IN  /\ id \in user_courses
            /\ similarity_scores[i][2] = MaxSim
            /\ "skills" \in DOMAIN G.node[id]
            /\ G.node[id].skills # {}
            /\ G.node[id].skills \subseteq user_skills

\* C3 as stated: for every integer limit the returned sequence has at most limit
\* entries and is sorted non-increasing by combined score.
C3_AsStated ==
    pc = "recommended" => Len(result) <= n /\ IsDescending(result)

\* C3 as amended: the returned sequence is sorted non-increasing by combined
\* score for every limit, and has at most limit entries for every limit >= 0.
C3_LengthAndOrder ==
    pc = "recommended" => (n >= 0 => Len(result) <= n) /\ IsDescending(result)

\* C3 witness: the limit cuts the candidates, and the one kept scores strictly
\* more than one that was appended before it.
C3_Witness ==
    /\ pc = "recommended"
    /\ n = 1
    /\ Len(result) = 1
    /\ Len(recommendations) = 2
    /\ Less(recommendations[1].combined_score, recommendations[2].combined_score)

\* C8: an entry whose node has an empty skill list, or no skills attribute, is
\* scored without an exception, with skill overlap 0: when it is eligible it is
\* a candidate with combined score 0.7 * similarity.
C8_ZeroSkillScoring ==
    \A i \in 1..Len(similarity_scores) :
        (/\ pc \in {"get_course_recommendations", "raised", "recommended"}
         /\ i < item \/ (pc = "raised" /\ i = item)
         /\ similarity_scores[i][1] \notin user_courses
         /\ ZeroSkillItem(i))
        => /\ pc # "raised"
           /\ i \in EligibleItems =>
                \E j \in 1..Len(recommendations) :
                    /\ recommendations[j].course_id = similarity_scores[i][1]
                    /\ recommendations[j].combined_score.num * (WeightDen * SimDen)
                         = SimilarityWeight * similarity_scores[i][2]
                             * recommendations[j].combined_score.den

\* C9: every returned combined score is 0.7 * similarity + 0.3 * (shared skills /
\* item skills), and lies in [0, 1] when every similarity lies in [0, 1].
C9_CombinedScore ==
    pc = "recommended" =>
        /\ \A j \in 1..Len(result) : \E i \in 1..Len(similarity_scores) :
            /\ similarity_scores[i][1] = result[j].course_id
            /\ result[j].combined_score.den > 0
            /\ IsCombinedScoreOf(result[j].combined_score, i)
        /\ (\A i \in 1..Len(similarity_scores) : similarity_scores[i][2] <= SimDen)
            => \A j \in 1..Len(result) :
                /\ 0 <= result[j].combined_score.num
                /\ result[j].combined_score.num <= result[j].combined_score.den

\* C9 witness: a returned entry with a partial skill overlap and a similarity
\* strictly between the ends of the range, next to one with overlap 0.
C9_Witness ==
    /\ pc = "recommended"
    /\ Len(result) = 2
    /\ \A i \in 1..Len(similarity_scores) : similarity_scores[i][2] <= SimDen
    /\ \E j \in 1..Len(result) :
        LET skills == G.node[result[j].course_id].skills
        IN  /\ skills \cap user_skills # {}
            /\ ~(skills \subseteq user_skills)
            /\ result[j].combined_score.num > 0
    /\ \E j \in 1..Len(result) : G.node[result[j].course_id].skills \cap user_skills = {}

\* C10: the candidates are exactly the items that are not completed and have
\* every direct predecessor completed; the returned sequence holds candidates
\* only, each once, in descending score order; no candidate left out scores
\* strictly more than a returned one; and when the candidates number at most
\* limit, all of them are returned.
C10_DirectEligibilityAndTruncation ==
    pc = "recommended" =>
        /\ {recommendations[j].course_id : j \in 1..Len(recommendations)}
             = {similarity_scores[i][1] : i \in EligibleItems}
        /\ ReturnedItems \subseteq EligibleItems
        /\ Distinct([j \in 1..Len(result) |-> result[j].course_id])
        /\ IsDescending(result)
        /\ \A i \in EligibleItems \ ReturnedItems : \A j \in 1..Len(result) :
             \A x \in {recommendations[k].combined_score : k \in 1..Len(recommendations)} :
                IsCombinedScoreOf(x, i) => ~Less(result[j].combined_score, x)
        /\ Cardinality(EligibleItems) <= n => ReturnedItems = EligibleItems
        /\ n >= 0 => Len(result) = Min(n, Cardinality(EligibleItems))

\* C10 witness: a returned item whose only prerequisite is completed while that
\* prerequisite's own prerequisite is not.
C10_Witness ==
    /\ pc = "recommended"
    /\ \E j \in 1..Len(result) : \E p \in DirectPrereqs(result[j].course_id) :
        /\ p \in user_courses
        /\ \E q \in DirectPrereqs(p) : q \notin user_courses

----------------------------------------------------------------------------
(* Properties of create_course_graph, under SpecBuild *)

\* C4: a failed keyword call, by a non-success response or by a transport error,
\* never ends the build: the item keeps its node with its base skills as merged
\* skills and the loop goes on to the next item.
C4_EnricherFailureDegrades ==
    \A i \in 1..Len(responses) :
        responses[i] \in {"error", "raise"}
        => /\ pc # "raised"
           /\ row > i
           /\ courses_df[i].course_id \in Nodes(G)
           /\ "skills" \in DOMAIN G.node[courses_df[i].course_id]
           /\ G.node[courses_df[i].course_id].skills = Range(courses_df[i].skills_associated)

\* C5: after the build the edge set is exactly the set of pairs (p, item) with p
\* the value of a prerequisite slot of the item that is present and not the
\* sentinel.
C5_EdgesMirrorSlots ==
    pc = "graph_built" =>
        G.edge = {e \in SlotPairs : e[1] # Absent /\ e[1] # NoneSentinel}

\* C5 witness: a built two-course catalog with a sentinel slot, an absent slot,
\* a slot naming the other course and a course that is its own prerequisite.
C5_Witness ==
    /\ pc = "graph_built"
    /\ Len(courses_df) = 2
    /\ \E e \in SlotPairs : e[1] = NoneSentinel
    /\ \E e \in SlotPairs : e[1] = Absent
    /\ \E e \in G.edge : e[1] # e[2]
    /\ \E e \in G.edge : e[1] = e[2]

\* C6: after the build every item has a node keyed by its identifier that
\* carries its display name and, as skills, the union of its base skills and
\* the keywords the enricher returned for it.
C6_NodePerItem ==
    pc = "graph_built" =>
        \A i \in 1..Len(courses_df) :
            LET id == courses_df[i].course_id
            IN  /\ id \in Nodes(G)
                /\ DOMAIN G.node[id] = {"name", "skills"}
                /\ G.node[id].name = courses_df[i].course_name
                /\ G.node[id].skills =
                     Range(courses_df[i].skills_associated) \cup Range(additional_keywords[i])

\* C6 witness: the second course was first a prerequisite of the first one, and
\* its keywords add a skill to its base skills and repeat one of them.
C6_Witness ==
    /\ pc = "graph_built"
    /\ Len(courses_df) = 2
    /\ courses_df[1].prerequisite_1 = courses_df[2].course_id
    /\ additional_keywords[2] # << >>
    /\ courses_df[2].skills_associated # << >>
    /\ \E j \in 1..2 : additional_keywords[j] # << >>
         /\ Range(additional_keywords[j]) \subseteq Range(courses_df[j].skills_associated)
    /\ \E j \in 1..2 : additional_keywords[j] # << >>
         /\ Range(additional_keywords[j]) \cap Range(courses_df[j].skills_associated) = {}

----------------------------------------------------------------------------
(* Properties of recommend_driver, under Spec *)

\* C7: the final output holds no record with combined score <= 0.3, every
\* record is one of the candidates get_course_recommendations returned, and the
\* records are in descending score order.
C7_ThresholdAndOrder ==
    pc = "done" =>
        /\ \A k \in 1..Len(output) :
            /\ output[k].combined_score.num * WeightDen
                 > ThresholdNum * output[k].combined_score.den
            /\ \E j \in 1..Len(result) :
                /\ result[j].course_id = output[k].course_id
                /\ result[j].combined_score = output[k].combined_score
        /\ \A k \in 1..(Len(output) - 1) :
            output[k + 1].combined_score.num * output[k].combined_score.den
              <= output[k].combined_score.num * output[k + 1].combined_score.den

\* C7 witness: a candidate with combined score exactly 0.3 is dropped and
\* another one is kept.
C7_Witness ==
    /\ pc = "done"
    /\ Len(output) = 1
    /\ Len(result) = 2
    /\ \E j \in 1..Len(result) :
        result[j].combined_score.num * WeightDen = ThresholdNum * result[j].combined_score.den

====
